---- MODULE Spec2Model ----
(***************************************************************************)
(* Model of the notebook 1_descriptive_stats.ipynb: a Jupyter kernel that  *)
(* runs the five code cells that compute and print descriptive statistics  *)
(* of the array `samples`.  One action per executed statement; a raised    *)
(* exception aborts the rest of its cell, after which the following cell   *)
(* may be run.                                                             *)
(*                                                                         *)
(* Numbers.  The notebook's integers are small, so they are modelled as    *)
(* integers.  Its floating-point results are modelled exactly, as          *)
(* rationals (num/den), as the square root of a rational (std) or as an    *)
(* unevaluated quotient (sk1, sk2, g1); IEEE NaN and infinity are values   *)
(* of their own.  The rounding error of the float64 arithmetic (about      *)
(* 1e-16) is far below the ten decimals at which results are compared.     *)
(***************************************************************************)
EXTENDS Integers, Sequences, FiniteSets

\* ------------------------------------------------------------------ bounds
MaxLen == 5
MaxVal == 2

\* The array literal of the notebook.
Reference == <<1, 4, 6, 3, 5, 7, 4, 2, 3, 4, 6, 6, 5, 7, 6, 6, 5>>

SeqsUpTo(n) == UNION {[1..k -> 0..MaxVal] : k \in 0..n}

\* The arrays `samples` may be bound to: the literal, and every short array
\* of small non-negative integers (the empty one included).
Inputs == SeqsUpTo(MaxLen) \cup {Reference}

\* ------------------------------------------------------------------ values
Undefined == [kind |-> "undefined"]
IntVal(n) == [kind |-> "int", n |-> n]
Rat(a, b) == [kind |-> "rat", num |-> a, den |-> b]
NaN == [kind |-> "nan"]
Inf(sign) == [kind |-> "inf", sign |-> sign]
Sqrt(a, b) == [kind |-> "sqrt", radnum |-> a, radden |-> b]
Quot(x, y) == [kind |-> "quot", top |-> x, bot |-> y]
Array(s) == [kind |-> "array", a |-> s]

\* ------------------------------------------------------- library functions
RECURSIVE Sum(_)
Sum(s) == IF s = <<>> THEN 0 ELSE Head(s) + Sum(Tail(s))

RECURSIVE Pow(_, _)
Pow(x, k) == IF k = 0 THEN 1 ELSE x * Pow(x, k - 1)

\* Sum of the k-th powers of the entries of s.
SumPow(s, k) == Sum([i \in 1..Len(s) |-> Pow(s[i], k)])

RECURSIVE Insert(_, _)
Insert(x, s) ==
  IF s = <<>> THEN <<x>>
  ELSE IF x <= Head(s) THEN <<x>> \o s
  ELSE <<Head(s)>> \o Insert(x, Tail(s))

RECURSIVE SortAsc(_)
SortAsc(s) == IF s = <<>> THEN <<>> ELSE Insert(Head(s), SortAsc(Tail(s)))

NoSort(s) == s

\* np.sort(samples): a copy in ascending order.
NpSort(s) == SortAsc(s)

\* The deviations x - mean, scaled by n: n*x - sum(x).
Dev(s) == [i \in 1..Len(s) |-> Len(s) * s[i] - Sum(s)]

NpMeanZero(s) == IF s = <<>> THEN Rat(0, 1) ELSE Rat(Sum(s), Len(s))

\* np.mean(samples): sum/n, and NaN (with a RuntimeWarning) on an empty array.
NpMean(s) == IF s = <<>> THEN NaN ELSE Rat(Sum(s), Len(s))

\* The mean of the squared deviations with n - ddof as the divisor:
\* sum(((n*x - S)/n)^2) / (n - ddof).
VarDdof(s, ddof) == Rat(SumPow(Dev(s), 2), Len(s) * Len(s) * (Len(s) - ddof))

NpVarSample(s) ==
  IF Len(s) <= 1 THEN NaN ELSE VarDdof(s, 1)

\* np.var(samples): ddof = 0, and NaN (with a RuntimeWarning) on an empty array.
NpVar(s) == IF s = <<>> THEN NaN ELSE VarDdof(s, 0)

\* np.std(samples): the square root of np.var(samples).
NpStd(s) ==
  IF NpVar(s).kind = "nan" THEN NaN ELSE Sqrt(NpVar(s).num, NpVar(s).den)

MaxOf(s) == CHOOSE x \in {s[i] : i \in 1..Len(s)} :
              \A y \in {s[i] : i \in 1..Len(s)} : y <= x
MinOf(s) == CHOOSE x \in {s[i] : i \in 1..Len(s)} :
              \A y \in {s[i] : i \in 1..Len(s)} : x <= y

\* np.bincount(samples): the occurrence count of each value 0..max(samples).
NpBincount(s) ==
  [v \in 0..MaxOf(s) |-> Cardinality({i \in 1..Len(s) : s[i] = v})]

ArgMaxLast(c) ==
  CHOOSE v \in DOMAIN c :
    (\A w \in DOMAIN c : c[w] <= c[v]) /\ (\A w \in DOMAIN c : w > v => c[w] < c[v])

\* ndarray.argmax(): the first index holding the maximum.
ArgMax(c) ==
  CHOOSE v \in DOMAIN c :
    (\A w \in DOMAIN c : c[w] <= c[v]) /\ (\A w \in DOMAIN c : w < v => c[w] < c[v])

\* int((len(samples) + 1) / 2)
MedianIndex(n) == (n + 1) \div 2

LowerIndexAsUpper(n) == (n + 1) \div 4

\* int(3*(len(samples) + 1)/4)
UpperIndex(n) == (3 * (n + 1)) \div 4

\* int((len(samples) + 1)/4)
LowerIndex(n) == (n + 1) \div 4

\* samples[i] with a 0-based index i >= 0 is defined for i < len(samples).
InBounds(s, i) == i < Len(s)
At(s, i) == s[i + 1]

\* x - k for a float x and an integer k, times c.
Scaled(c, x, k) ==
  IF x.kind = "nan" THEN NaN ELSE Rat(c * (x.num - k * x.den), x.den)

\* Division of numpy float64 scalars: a zero divisor gives NaN or an
\* infinity (with a RuntimeWarning), never an exception.
FloatDiv(x, y) ==
  IF x.kind = "nan" \/ y.kind = "nan" THEN NaN
  ELSE IF y.radnum = 0
       THEN IF x.num = 0 THEN NaN ELSE Inf(IF x.num < 0 THEN -1 ELSE 1)
       ELSE Quot(x, y)

\* The values sp.stats.skew may give for data whose second moment is zero:
\* NaN in current scipy, 0 in older releases.
SkewOfConstant == {NaN, Rat(0, 1)}

\* sp.stats.skew(samples): m3 / m2^(3/2), kept as its moments
\* (m_k = SumPow(Dev, k) / n^(k+1)).
ScipySkew(s) ==
  [kind |-> "g1", m3 |-> SumPow(Dev(s), 3), m2 |-> SumPow(Dev(s), 2), n |-> Len(s)]

\* The values sp.stats.kurtosis may give for data whose second moment is
\* zero: NaN in current scipy, -3 in older releases.
KurtosisOfConstant == {NaN, Rat(-3, 1)}

KurtosisPearson(s) ==
  Rat(Len(s) * SumPow(Dev(s), 4), Pow(SumPow(Dev(s), 2), 2))

\* sp.stats.kurtosis(samples), fisher=True, bias=True: m4 / m2^2 - 3
\* = n * sum(d^4) / (sum(d^2))^2 - 3 for the scaled deviations d.
ScipyKurtosis(s) ==
  Rat(Len(s) * SumPow(Dev(s), 4) - 3 * Pow(SumPow(Dev(s), 2), 2),
      Pow(SumPow(Dev(s), 2), 2))

\* ------------------------------------------------------------------- state
VARIABLES
  input,     \* the array literal bound to `samples` by the first statement
  samples,   \* the kernel's variable `samples`
  pc,        \* the statement to execute next
  failed,    \* the statement at pc raised: its cell is aborted
  errors,    \* the exceptions raised so far, with the statement of each
  out,       \* the lines written to standard output, in order
  upper_q, lower_q, mean, mode, median, std   \* the kernel's other variables

vars == <<input, samples, pc, failed, errors, out,
          upper_q, lower_q, mean, mode, median, std>>

\* The statements of the code cells, in notebook order.
Stmts == <<"sort", "p_samples", "p_mean", "p_mode", "p_median",
           "p_range", "upper_q", "lower_q", "p_upper", "p_lower", "p_iqr",
           "p_var", "p_std",
           "a_mean", "a_mode", "a_median", "a_std", "p_sk1", "p_sk2", "p_g1",
           "p_kurt">>

\* The first statement of each code cell after the first.
CellStarts == {"p_range", "p_var", "a_mean", "p_kurt"}

Pos(st) == IF st = "done" THEN Len(Stmts) + 1
           ELSE CHOOSE i \in 1..Len(Stmts) : Stmts[i] = st

Succ(st) == IF Pos(st) >= Len(Stmts) THEN "done" ELSE Stmts[Pos(st) + 1]

\* The first statement of the cell after the one holding st.
NextCell(st) ==
  IF \E c \in CellStarts : Pos(c) > Pos(st)
  THEN CHOOSE c \in CellStarts :
         Pos(c) > Pos(st) /\ \A d \in CellStarts : Pos(d) > Pos(st) => Pos(c) <= Pos(d)
  ELSE "done"

LabelOfSwapped(st) ==
  CASE st = "p_samples" -> "Samples"
    [] st = "p_mean" -> "mean"
    [] st = "p_mode" -> "mode"
    [] st = "p_median" -> "median"
    [] st = "p_range" -> "range"
    [] st = "p_upper" -> "Lower quartile"
    [] st = "p_lower" -> "Upper quartile"
    [] st = "p_iqr" -> "IQR"
    [] st = "p_var" -> "variance"
    [] st = "p_std" -> "std"
    [] st = "p_sk1" -> "sk1"
    [] st = "p_sk2" -> "sk2"
    [] st = "p_g1" -> "g1"
    [] st = "p_kurt" -> "kurtosis"

\* The label each print statement writes before its value.
LabelOf(st) ==
  CASE st = "p_samples" -> "Samples"
    [] st = "p_mean" -> "mean"
    [] st = "p_mode" -> "mode"
    [] st = "p_median" -> "median"
    [] st = "p_range" -> "range"
    [] st = "p_upper" -> "Upper quartile"
    [] st = "p_lower" -> "Lower quartile"
    [] st = "p_iqr" -> "IQR"
    [] st = "p_var" -> "variance"
    [] st = "p_std" -> "std"
    [] st = "p_sk1" -> "sk1"
    [] st = "p_sk2" -> "sk2"
    [] st = "p_g1" -> "g1"
    [] st = "p_kurt" -> "kurtosis"

Line(st, v) == [label |-> LabelOf(st), val |-> v]

At_(st) == pc = st /\ ~failed

\* print(label, v): one line more, and on to the next statement.
Emit(st, v) ==
  /\ out' = Append(out, Line(st, v))
  /\ pc' = Succ(st)
  /\ UNCHANGED <<failed, errors>>

\* The statement raises: nothing is printed or assigned, the cell stops.
Raise(st, exc) ==
  /\ failed' = TRUE
  /\ errors' = errors \cup {[at |-> st, exc |-> exc]}
  /\ UNCHANGED <<pc, out>>

KernelVars == <<upper_q, lower_q, mean, mode, median, std>>

Init ==
  /\ input \in Inputs
  /\ samples = input
  /\ pc = "sort"
  /\ failed = FALSE
  /\ errors = {}
  /\ out = <<>>
  /\ upper_q = Undefined /\ lower_q = Undefined /\ mean = Undefined
  /\ mode = Undefined /\ median = Undefined /\ std = Undefined

\* ---------------------------------------------------- cell: central tendency
\* samples = np.sort(samples)
SortSamples ==
  /\ At_("sort")
  /\ samples' = NpSort(samples)
  /\ pc' = Succ("sort")
  /\ UNCHANGED <<input, failed, errors, out, KernelVars>>

\* print("Samples:", samples)
PrintSamples ==
  /\ At_("p_samples")
  /\ Emit("p_samples", Array(samples))
  /\ UNCHANGED <<input, samples, KernelVars>>

\* print("mean:", np.mean(samples))
PrintMean ==
  /\ At_("p_mean")
  /\ Emit("p_mean", NpMean(samples))
  /\ UNCHANGED <<input, samples, KernelVars>>

\* The exceptions np.bincount(samples).argmax() may raise on an empty
\* array: bincount refuses the float64 array np.array([]) (TypeError), and
\* argmax refuses an empty count array (ValueError).
EmptyModeErrors == {"TypeError", "ValueError"}

\* print("mode:", np.bincount(samples).argmax())
PrintMode ==
  /\ At_("p_mode")
  /\ IF samples = <<>>
     THEN \E exc \in EmptyModeErrors : Raise("p_mode", exc)
     ELSE Emit("p_mode", IntVal(ArgMax(NpBincount(samples))))
  /\ UNCHANGED <<input, samples, KernelVars>>

\* print("median:", samples[int((len(samples) + 1) / 2)])
PrintMedian ==
  /\ At_("p_median")
  /\ IF InBounds(samples, MedianIndex(Len(samples)))
     THEN Emit("p_median", IntVal(At(samples, MedianIndex(Len(samples)))))
     ELSE Raise("p_median", "IndexError")
  /\ UNCHANGED <<input, samples, KernelVars>>

\* ------------------------------------------------ cell: range and quartiles
\* print("range:", max(samples) - min(samples)); max() of an empty array
\* raises ValueError.
PrintRange ==
  /\ At_("p_range")
  /\ IF samples = <<>>
     THEN Raise("p_range", "ValueError")
     ELSE Emit("p_range", IntVal(MaxOf(samples) - MinOf(samples)))
  /\ UNCHANGED <<input, samples, KernelVars>>

\* upper_q = samples[int(3*(len(samples) + 1)/4)]
AssignUpperQ ==
  /\ At_("upper_q")
  /\ IF InBounds(samples, UpperIndex(Len(samples)))
     THEN /\ upper_q' = IntVal(At(samples, UpperIndex(Len(samples))))
          /\ pc' = Succ("upper_q")
          /\ UNCHANGED <<failed, errors, out>>
     ELSE /\ Raise("upper_q", "IndexError")
          /\ UNCHANGED upper_q
  /\ UNCHANGED <<input, samples, lower_q, mean, mode, median, std>>

\* lower_q = samples[int((len(samples) + 1)/4)]
AssignLowerQ ==
  /\ At_("lower_q")
  /\ IF InBounds(samples, LowerIndex(Len(samples)))
     THEN /\ lower_q' = IntVal(At(samples, LowerIndex(Len(samples))))
          /\ pc' = Succ("lower_q")
          /\ UNCHANGED <<failed, errors, out>>
     ELSE /\ Raise("lower_q", "IndexError")
          /\ UNCHANGED lower_q
  /\ UNCHANGED <<input, samples, upper_q, mean, mode, median, std>>

\* print("Upper quartile:", upper_q)
PrintUpperQ ==
  /\ At_("p_upper")
  /\ Emit("p_upper", upper_q)
  /\ UNCHANGED <<input, samples, KernelVars>>

\* print("Lower quartile:", lower_q)
PrintLowerQ ==
  /\ At_("p_lower")
  /\ Emit("p_lower", lower_q)
  /\ UNCHANGED <<input, samples, KernelVars>>

\* print("IQR:", upper_q - lower_q)
PrintIQR ==
  /\ At_("p_iqr")
  /\ Emit("p_iqr", IntVal(upper_q.n - lower_q.n))
  /\ UNCHANGED <<input, samples, KernelVars>>

\* ------------------------------------------------- cell: variance and std
\* print("variance:", np.var(samples))
PrintVariance ==
  /\ At_("p_var")
  /\ Emit("p_var", NpVar(samples))
  /\ UNCHANGED <<input, samples, KernelVars>>

\* print("std:", np.std(samples))
PrintStd ==
  /\ At_("p_std")
  /\ Emit("p_std", NpStd(samples))
  /\ UNCHANGED <<input, samples, KernelVars>>

\* ------------------------------------------------------------ cell: skewness
\* mean = np.mean(samples)
AssignMean ==
  /\ At_("a_mean")
  /\ mean' = NpMean(samples)
  /\ pc' = Succ("a_mean")
  /\ UNCHANGED <<input, samples, failed, errors, out,
                 upper_q, lower_q, mode, median, std>>

\* mode = np.bincount(samples).argmax()
AssignMode ==
  /\ At_("a_mode")
  /\ IF samples = <<>>
     THEN /\ \E exc \in EmptyModeErrors : Raise("a_mode", exc)
          /\ UNCHANGED mode
     ELSE /\ mode' = IntVal(ArgMax(NpBincount(samples)))
          /\ pc' = Succ("a_mode")
          /\ UNCHANGED <<failed, errors, out>>
  /\ UNCHANGED <<input, samples, upper_q, lower_q, mean, median, std>>

\* median = samples[int((len(samples) + 1) / 2)]
AssignMedian ==
  /\ At_("a_median")
  /\ IF InBounds(samples, MedianIndex(Len(samples)))
     THEN /\ median' = IntVal(At(samples, MedianIndex(Len(samples))))
          /\ pc' = Succ("a_median")
          /\ UNCHANGED <<failed, errors, out>>
     ELSE /\ Raise("a_median", "IndexError")
          /\ UNCHANGED median
  /\ UNCHANGED <<input, samples, upper_q, lower_q, mean, mode, std>>

\* std = np.std(samples)
AssignStd ==
  /\ At_("a_std")
  /\ std' = NpStd(samples)
  /\ pc' = Succ("a_std")
  /\ UNCHANGED <<input, samples, failed, errors, out,
                 upper_q, lower_q, mean, mode, median>>

\* print("sk1:", (mean - mode) / std)
PrintSk1 ==
  /\ At_("p_sk1")
  /\ Emit("p_sk1", FloatDiv(Scaled(1, mean, mode.n), std))
  /\ UNCHANGED <<input, samples, KernelVars>>

\* print("sk2:", 3 * (mean - median) / std)
PrintSk2 ==
  /\ At_("p_sk2")
  /\ Emit("p_sk2", FloatDiv(Scaled(3, mean, median.n), std))
  /\ UNCHANGED <<input, samples, KernelVars>>

\* print("g1:", sp.stats.skew(samples))
PrintG1 ==
  /\ At_("p_g1")
  /\ IF samples = <<>>
     THEN Emit("p_g1", NaN)
     ELSE IF SumPow(Dev(samples), 2) = 0
          THEN \E v \in SkewOfConstant : Emit("p_g1", v)
          ELSE Emit("p_g1", ScipySkew(samples))
  /\ UNCHANGED <<input, samples, KernelVars>>

\* ------------------------------------------------------------ cell: kurtosis
\* print("kurtosis:", sp.stats.kurtosis(samples))
PrintKurtosis ==
  /\ At_("p_kurt")
  /\ IF samples = <<>>
     THEN Emit("p_kurt", NaN)
     ELSE IF SumPow(Dev(samples), 2) = 0
          THEN \E v \in KurtosisOfConstant : Emit("p_kurt", v)
          ELSE Emit("p_kurt", ScipyKurtosis(samples))
  /\ UNCHANGED <<input, samples, KernelVars>>

\* ------------------------------------------------------------------- kernel
\* After a cell was aborted by an exception, the following cell is run: the
\* kernel keeps every variable bound so far.
RunNextCell ==
  /\ failed
  /\ pc' = NextCell(pc)
  /\ failed' = FALSE
  /\ UNCHANGED <<input, samples, errors, out, KernelVars>>

Next ==
  \/ SortSamples \/ PrintSamples \/ PrintMean \/ PrintMode \/ PrintMedian
  \/ PrintRange \/ AssignUpperQ \/ AssignLowerQ
  \/ PrintUpperQ \/ PrintLowerQ \/ PrintIQR
  \/ PrintVariance \/ PrintStd
  \/ AssignMean \/ AssignMode \/ AssignMedian \/ AssignStd
  \/ PrintSk1 \/ PrintSk2 \/ PrintG1
  \/ PrintKurtosis
  \/ RunNextCell

Spec == Init /\ [][Next]_vars

\* ================================================================ properties
Labels == [i \in DOMAIN out |-> out[i].label]
LinesOf(label) == {out[i].val : i \in {j \in DOMAIN out : out[j].label = label}}
Past(st) == Pos(pc) > Pos(st) \/ (pc = st /\ failed)
IsInt(v, k) == v.kind = "int" /\ v.n = k
N == Len(input)

Abs(x) == IF x < 0 THEN -x ELSE x

RECURSIVE Gcd(_, _)
Gcd(a, b) == IF b = 0 THEN a ELSE Gcd(b, a % b)

\* A rational in lowest terms with a positive denominator.
Norm(r) ==
  LET g == Gcd(Abs(r.num), Abs(r.den))
      s == IF r.den < 0 THEN -1 ELSE 1
  IN  Rat(s * (r.num \div g), s * (r.den \div g))

RatEq(a, b) == Norm(a) = Norm(b)

\* The first 10*r/d digits of the fraction r/d (0 <= r < d).
RECURSIVE FracDigits(_, _, _)
FracDigits(r, d, k) ==
  IF k = 0 THEN <<>>
  ELSE <<(10 * r) \div d>> \o FracDigits((10 * r) % d, d, k - 1)

\* A digit string plus one in its last place (not all digits 9).
RECURSIVE Incr(_)
Incr(ds) ==
  LET front == SubSeq(ds, 1, Len(ds) - 1)
  IN  IF ds[Len(ds)] = 9 THEN Incr(front) \o <<0>>
      ELSE front \o <<ds[Len(ds)] + 1>>

\* The rational r rounded (half up) to k decimals: sign, integer part, digits.
Decimal(r, k) ==
  LET a == Abs(r.num)
      b == Abs(r.den)
      ds == FracDigits(a % b, b, k + 1)
      first == SubSeq(ds, 1, k)
      neg == (r.num < 0) # (r.den < 0)
  IN  IF ds[k + 1] < 5 THEN [neg |-> neg, ip |-> a \div b, frac |-> first]
      ELSE IF \A i \in 1..k : first[i] = 9
           THEN [neg |-> neg, ip |-> (a \div b) + 1, frac |-> [i \in 1..k |-> 0]]
           ELSE [neg |-> neg, ip |-> a \div b, frac |-> Incr(first)]

\* ------------------------------------------------------------------------ C1
\* C1: on the reference input the sorted samples are printed, and the
\* printed mode is 6, median 5, range 6, lower quartile 4, upper quartile 6
\* and IQR 2; a run to the end prints each of them and raises nothing.
C1_ReferenceStatistics ==
  input = Reference =>
    /\ \A v \in LinesOf("Samples") :
         v.a = <<1, 2, 3, 3, 4, 4, 4, 5, 5, 5, 6, 6, 6, 6, 6, 7, 7>>
    /\ \A v \in LinesOf("mode") : IsInt(v, 6)
    /\ \A v \in LinesOf("median") : IsInt(v, 5)
    /\ \A v \in LinesOf("range") : IsInt(v, 6)
    /\ \A v \in LinesOf("Lower quartile") : IsInt(v, 4)
    /\ \A v \in LinesOf("Upper quartile") : IsInt(v, 6)
    /\ \A v \in LinesOf("IQR") : IsInt(v, 2)
    /\ errors = {}
    /\ pc = "done" =>
         \A l \in {"Samples", "mode", "median", "range", "Lower quartile",
                   "Upper quartile", "IQR"} : LinesOf(l) # {}

C1_Witness ==
  input = Reference /\ pc = "done" /\ IntVal(2) \in LinesOf("IQR")

\* ------------------------------------------------------------------------ C2
\* C2: the median printed for n samples is the ceil((n+1)/2)-th element,
\* counting from 1, of the sorted samples (for odd n the middle value).
C2_MedianIsCeilHalfElement ==
  \A v \in LinesOf("median") :
    IsInt(v, samples[(Len(samples) + 2) \div 2])

CountIn(s, x) == Cardinality({i \in 1..Len(s) : s[i] = x})

\* x occurs most often in s, and more often than every smaller value.
SmallestMostFrequent(s, x) ==
  /\ CountIn(s, x) >= 1
  /\ \A i \in 1..Len(s) : CountIn(s, s[i]) <= CountIn(s, x)
  /\ \A i \in 1..Len(s) : s[i] < x => CountIn(s, s[i]) < CountIn(s, x)

\* C4: every mode the notebook prints or binds is the smallest of the most
\* frequent values of the input as given (whatever its order), and a
\* non-empty input gets a mode.
C4_ModeSmallestMostFrequent ==
  /\ \A v \in LinesOf("mode") : v.kind = "int" /\ SmallestMostFrequent(input, v.n)
  /\ mode # Undefined => SmallestMostFrequent(input, mode.n)
  /\ (N >= 1 /\ Past("p_mode")) => LinesOf("mode") # {}
  /\ (N >= 1 /\ Past("a_mode")) => mode # Undefined

C4_Witness ==
  input = <<2, 1, 2, 1>> /\ IntVal(1) \in LinesOf("mode") /\ mode = IntVal(1)

\* ------------------------------------------------------------------------ C5
\* C5: whenever the lower quartile, the positional median and the upper
\* quartile have all been computed, lower <= median <= upper, and a
\* printed IQR is not negative.
C5_QuartileOrder ==
  /\ \A l \in LinesOf("Lower quartile") : \A m \in LinesOf("median") :
       \A u \in LinesOf("Upper quartile") : l.n <= m.n /\ m.n <= u.n
  /\ (lower_q # Undefined /\ upper_q # Undefined /\ median # Undefined) =>
       lower_q.n <= median.n /\ median.n <= upper_q.n
  /\ (lower_q # Undefined /\ upper_q # Undefined) => lower_q.n <= upper_q.n
  /\ \A v \in LinesOf("IQR") : v.n >= 0

C5_Witness ==
  /\ lower_q # Undefined /\ upper_q # Undefined /\ median # Undefined
  /\ lower_q.n < median.n /\ median.n < upper_q.n
  /\ \E v \in LinesOf("IQR") : v.n > 0

\* ------------------------------------------------------------------------ C6
IsConstant(s) == Len(s) >= 1 /\ \A i \in 1..Len(s) : s[i] = s[1]

\* The outcome of a skewness ratio whose divisor is zero.
ZeroStdOutcome(v) == v.kind \in {"nan", "inf"}

\* C6: for every constant sample sequence the variance, std, range and IQR
\* come out as 0 and sk1 and sk2 as the zero-std outcome: none of these
\* statements ends in anything else, and a run to the end produces them all.
C6_ConstantSequence ==
  IsConstant(input) =>
    /\ \A v \in LinesOf("variance") : v.kind = "rat" /\ v.num = 0
    /\ \A v \in LinesOf("std") : v.kind = "sqrt" /\ v.radnum = 0
    /\ \A v \in LinesOf("range") : IsInt(v, 0)
    /\ \A v \in LinesOf("IQR") : IsInt(v, 0)
    /\ \A v \in LinesOf("sk1") \cup LinesOf("sk2") : ZeroStdOutcome(v)
    /\ \A e \in errors :
         e.at \notin {"p_range", "upper_q", "lower_q", "p_iqr", "p_var", "p_std",
                      "a_mean", "a_mode", "a_median", "a_std", "p_sk1", "p_sk2"}
    /\ pc = "done" =>
         \A l \in {"variance", "std", "range", "IQR", "sk1", "sk2"} : LinesOf(l) # {}

\* ------------------------------------------------------------------------ C7
NeedsSamples ==
  {"mean", "mode", "median", "range", "Upper quartile", "Lower quartile",
   "IQR", "variance", "std"}

PrintOrder ==
  <<"Samples", "mean", "mode", "median", "range", "Upper quartile",
    "Lower quartile", "IQR", "variance", "std", "sk1", "sk2", "g1", "kurtosis">>

\* C8: while no statement has raised, the lines written so far are the
\* first lines of the fixed order, each once; a run that ends without an
\* exception has written all fourteen.
C8_PrintOrder ==
  errors = {} =>
    /\ Len(out) <= Len(PrintOrder)
    /\ Labels = SubSeq(PrintOrder, 1, Len(out))
    /\ pc = "done" => Len(out) = Len(PrintOrder)

C8_Witness ==
  pc = "done" /\ errors = {} /\ Labels = PrintOrder

\* ------------------------------------------------------------------------ C9
M2 == SumPow(Dev(input), 2)
M4 == SumPow(Dev(input), 4)

\* -0.5215787668
RefKurtosis ==
  [neg |-> TRUE, ip |-> 0, frac |-> <<5, 2, 1, 5, 7, 8, 7, 6, 6, 8>>]

C10_IndexingInBounds ==
  N >= 1 => \A e \in errors : e.exc # "IndexError"

====
